---- MODULE Spec2Model ----
(***************************************************************************)
(* TEG_Dashboard: two Streamlit pages over the Monday.com GraphQL API.     *)
(*   src/app.py                    ad-spend page  (get_monday_data,        *)
(*                                 format_data, main)                      *)
(*   src/pages/sales_dashboard.py  sales page     (get_sales_data,         *)
(*                                 process_sales_data, main)               *)
(*                                                                         *)
(* Text is modelled as a sequence of one-character strings, so that the    *)
(* conversions of the code (str.replace, to_numeric, to_datetime,          *)
(* str.contains) are computed character by character.  Python None is the  *)
(* tuple <<"None">>, a missing number, date or label (NaN / NaT) is the    *)
(* empty tuple, and a present one is the one-element tuple of its value.   *)
(***************************************************************************)
EXTENDS Integers, Sequences, FiniteSets, TLC

(***************************************************************************)
(* Bounds of the model.                                                    *)
(***************************************************************************)
\* page size of get_sales_data (limit = 500 in the source), scaled down
limit == 2
\* page size of get_monday_data (items_page(limit: 100) in the source), scaled down
app_limit == 1
\* largest number of items a board holds
MaxBoard == 5
\* largest number of requests one fetch may issue before the model stops following it
MaxPages == 4
\* largest number of raw items handed to a normalizer
MaxItems == 2
\* largest number of raw items behind a displayed page
MaxRows == 3
\* the clock stops advancing here (seconds)
MaxClock == 300
\* largest number of render passes of one session
MaxRenders == 2

(***************************************************************************)
(* Program constants.                                                      *)
(***************************************************************************)
\* @st.cache_data(ttl=300)
ttl == 300

(***************************************************************************)
(* Values.                                                                 *)
(***************************************************************************)
\* Python None (a JSON null, a missing key read with a None default)
None == <<"None">>
\* pandas NaN / NaT: a missing number, date or label
NaN == <<>>
\* a number n held in a numeric column
Num(n) == <<n>>
IsNaN(x) == x = NaN
Val(x) == x[1]

Digits == <<"0", "1", "2", "3", "4", "5", "6", "7", "8", "9">>
IsDigit(c) == \E i \in 1..10 : Digits[i] = c
DigitVal(c) == (CHOOSE i \in 1..10 : Digits[i] = c) - 1

\* Python truthiness of a text value: None and "" are falsy
Truthy(t) == t # None /\ t # <<>>

\* `text if text else ""`
TextOrEmpty(t) == IF Truthy(t) THEN t ELSE <<>>

RECURSIVE Remove(_, _)
\* Series.str.replace(c, '') for a one-character pattern c: every occurrence removed
Remove(t, c) ==
    IF t = <<>> THEN <<>>
    ELSE IF Head(t) = c THEN Remove(Tail(t), c)
    ELSE <<Head(t)>> \o Remove(Tail(t), c)

RECURSIVE DigitsValue(_)
\* the number written by a non-empty sequence of digits
DigitsValue(t) ==
    IF Len(t) = 1 THEN DigitVal(t[1])
    ELSE 10 * DigitsValue(SubSeq(t, 1, Len(t) - 1)) + DigitVal(t[Len(t)])

AllDigits(t) == t # <<>> /\ \A i \in 1..Len(t) : IsDigit(t[i])

\* pd.to_numeric(errors='coerce') on one cell: an optionally signed integer
\* literal gives its value, everything else (including "") gives NaN.
\* (Texts with a decimal point or surrounding blanks are not among the inputs.)
to_numeric(t) ==
    IF AllDigits(t) THEN Num(DigitsValue(t))
    ELSE IF t # <<>> /\ Head(t) = "-" /\ AllDigits(Tail(t)) THEN Num(0 - DigitsValue(Tail(t)))
    ELSE NaN

\* Series.str.contains(pat, na=False) for a literal pattern
Contains(t, pat) ==
    \E i \in 1..(Len(t) - Len(pat) + 1) : SubSeq(t, i, i + Len(pat) - 1) = pat

(***************************************************************************)
(* Dates.                                                                  *)
(***************************************************************************)
MonthNames == <<"January", "February", "March", "April", "May", "June", "July",
                "August", "September", "October", "November", "December">>

IsLeap(y) == (y % 4 = 0 /\ y % 100 # 0) \/ y % 400 = 0
DaysIn(y, m) ==
    IF m = 2 THEN (IF IsLeap(y) THEN 29 ELSE 28)
    ELSE IF m \in {4, 6, 9, 11} THEN 30 ELSE 31

\* pd.to_datetime(errors='coerce') on one cell holding the board's date text
\* (ISO "YYYY-MM-DD"): a real calendar date gives the date, everything else NaT
to_datetime(t) ==
    IF /\ Len(t) = 10
       /\ t[5] = "-" /\ t[8] = "-"
       /\ AllDigits(SubSeq(t, 1, 4)) /\ AllDigits(SubSeq(t, 6, 7)) /\ AllDigits(SubSeq(t, 9, 10))
    THEN LET y == DigitsValue(SubSeq(t, 1, 4))
             m == DigitsValue(SubSeq(t, 6, 7))
             d == DigitsValue(SubSeq(t, 9, 10))
         IN IF y >= 1 /\ m \in 1..12 /\ d >= 1 /\ d <= DaysIn(y, m)
            THEN <<[y |-> y, m |-> m, d |-> d]>>
            ELSE NaN
    ELSE NaN

\* .dt.year, .dt.month, .dt.strftime('%B'), .dt.strftime('%B %Y'): NaN on NaT
dt_year(x) == IF IsNaN(x) THEN NaN ELSE Num(Val(x).y)
dt_month(x) == IF IsNaN(x) THEN NaN ELSE Num(Val(x).m)
strftime_B(x) == IF IsNaN(x) THEN NaN ELSE <<MonthNames[Val(x).m]>>
strftime_BY(x) == IF IsNaN(x) THEN NaN ELSE <<MonthNames[Val(x).m], Val(x).y>>

\* the order sort_values puts dates in
DateKey(x) == Val(x).y * 10000 + Val(x).m * 100 + Val(x).d

(***************************************************************************)
(* Raw items and the value a fetcher hands to its normalizer.              *)
(* A RawItem is [id, name, column_values], column_values a sequence of     *)
(* [id, text] pairs; text is None when the API sends null.                 *)
(***************************************************************************)
Col(id, text) == [id |-> id, text |-> text]
RawItem(id, name, cols) == [id |-> id, name |-> name, column_values |-> cols]

\* `return None`
NoneData == [kind |-> "None", errors |-> FALSE, boards |-> "absent", items |-> <<>>]
\* a decoded JSON body: "errors" present or not; data.boards absent, [] or
\* [{"items_page": {"items": items}}]
Json(errors, boards, items) ==
    [kind |-> "json", errors |-> errors, boards |-> boards, items |-> items]

\* pd.DataFrame(): no rows and no columns
EmptyFrame == <<>>

(***************************************************************************)
(* src/app.py: format_data                                                 *)
(***************************************************************************)
RECURSIVE ExtractAdspend(_, _)
\* the loop over item.get("column_values", []): the last matching pair wins
ExtractAdspend(record, cols) ==
    IF cols = <<>> THEN record
    ELSE LET c == Head(cols)
             text == TextOrEmpty(c.text)
             next == IF c.id = "date_mkv81p3z"
                        THEN [record EXCEPT !.Attribution_Date = text]
                     ELSE IF c.id = "numeric_mkv863mb"
                        THEN [record EXCEPT !.Google_Adspend = text]
                     ELSE record
         IN ExtractAdspend(next, Tail(cols))

AdspendRecord(items, i) ==
    ExtractAdspend([index |-> i, Item |-> items[i].name,
                    Attribution_Date |-> <<>>, Google_Adspend |-> <<>>],
                   items[i].column_values)

\* the row after the column conversions of lines 156-162
AdspendRow(rec) ==
    LET date == to_datetime(rec.Attribution_Date)
    IN [index |-> rec.index, Item |-> rec.Item, Attribution_Date |-> date,
        Month_Year |-> strftime_BY(date), Google_Adspend |-> to_numeric(rec.Google_Adspend)]

\* sort_values puts NaT last
DateBefore(a, b) ==
    IF IsNaN(a) THEN FALSE
    ELSE IF IsNaN(b) THEN TRUE
    ELSE DateKey(a) < DateKey(b)

RECURSIVE InsertByDate(_, _)
InsertByDate(sorted, row) ==
    IF sorted = <<>> THEN <<row>>
    ELSE IF DateBefore(row.Attribution_Date, Head(sorted).Attribution_Date)
         THEN <<row>> \o sorted
         ELSE <<Head(sorted)>> \o InsertByDate(Tail(sorted), row)

RECURSIVE SortDropsNaT(_)
SortDropsNaT(rows) ==
    IF rows = <<>> THEN <<>>
    ELSE IF IsNaN(rows[Len(rows)].Attribution_Date)
         THEN SortDropsNaT(SubSeq(rows, 1, Len(rows) - 1))
         ELSE InsertByDate(SortDropsNaT(SubSeq(rows, 1, Len(rows) - 1)), rows[Len(rows)])

RECURSIVE sort_values(_)
\* df.sort_values('Attribution Date'): ascending, NaT last, rows with equal
\* dates left in their order
sort_values(rows) ==
    IF rows = <<>> THEN <<>>
    ELSE InsertByDate(sort_values(SubSeq(rows, 1, Len(rows) - 1)), rows[Len(rows)])

format_data(data) ==
    IF data.kind = "None" \/ data.boards = "absent" THEN EmptyFrame
    ELSE IF data.boards = "empty" THEN EmptyFrame
    ELSE IF data.items = <<>> THEN EmptyFrame
    ELSE sort_values([i \in 1..Len(data.items) |-> AdspendRow(AdspendRecord(data.items, i))])

(***************************************************************************)
(* src/pages/sales_dashboard.py: process_sales_data                        *)
(***************************************************************************)
FormulaColumns == {"formula_mktj2qh2", "formula_mktk2rgx", "formula_mktks5te",
                   "formula_mktknqy9", "formula_mktkwnyh", "formula_mktq5ahq",
                   "formula_mktt5nty", "formula_mkv0r139"}

RECURSIVE ExtractSales(_, _)
\* the loop over item.get("column_values", []): the last matching pair wins
ExtractSales(record, cols) ==
    IF cols = <<>> THEN record
    ELSE LET c == Head(cols)
             text == TextOrEmpty(c.text)
             next == IF c.id = "color_mknxd1j2" THEN [record EXCEPT !.Lead_Status = text]
                     ELSE IF c.id = "contract_amt" THEN [record EXCEPT !.Contract_Amount = text]
                     ELSE IF c.id = "numbers3" THEN [record EXCEPT !.Numbers3 = text]
                     ELSE IF c.id = "color_mkvewcwe" THEN [record EXCEPT !.Assigned_Person = text]
                     ELSE IF c.id = "status_14__1" THEN [record EXCEPT !.Client_Type = text]
                     ELSE IF c.id = "date_mktq7npm" THEN [record EXCEPT !.Close_Date = text]
                     ELSE IF c.id \in FormulaColumns
                        THEN [record EXCEPT !.Amount_Paid_or_Contract_Value = text]
                     ELSE record
         IN ExtractSales(next, Tail(cols))

SalesRecord(items, i) ==
    ExtractSales([index |-> i, Item |-> items[i].name, Close_Date |-> <<>>,
                  Lead_Status |-> <<>>, Amount_Paid_or_Contract_Value |-> <<>>,
                  Contract_Amount |-> <<>>, Numbers3 |-> <<>>,
                  Assigned_Person |-> <<>>, Client_Type |-> <<>>],
                 items[i].column_values)

\* lines 257-259: Contract Amount with NaN filled by 0, and where that is 0 the
\* value of Numbers3 (NaN when Numbers3 is NaN)
TotalValueSum(contract, numbers3) ==
    Num((IF IsNaN(contract) THEN 0 ELSE Val(contract))
        + (IF IsNaN(numbers3) THEN 0 ELSE Val(numbers3)))
TotalValue(contract, numbers3) ==
    LET filled == IF IsNaN(contract) THEN Num(0) ELSE contract
    IN IF Val(filled) = 0 THEN numbers3 ELSE filled

\* the row of df after the column conversions of lines 247-259
SalesRow(rec) ==
    LET contract == to_numeric(Remove(Remove(rec.Contract_Amount, "$"), ","))
        numbers3 == to_numeric(rec.Numbers3)
    IN [index |-> rec.index, Item |-> rec.Item, Close_Date |-> rec.Close_Date,
        Lead_Status |-> rec.Lead_Status,
        Amount_Paid_or_Contract_Value |-> to_numeric(rec.Amount_Paid_or_Contract_Value),
        Contract_Amount |-> contract, Numbers3 |-> numbers3,
        Assigned_Person |-> rec.Assigned_Person, Client_Type |-> rec.Client_Type,
        Total_Value |-> TotalValue(contract, numbers3)]

Closed == <<"C", "l", "o", "s", "e", "d">>
Lit2025 == <<"2", "0", "2", "5">>

\* a comparison with NaN is False
GE0(x) == ~IsNaN(x) /\ Val(x) >= 0

closed_status_mask_any_case(row) ==
    row.Lead_Status \in {Closed, <<"c", "l", "o", "s", "e", "d">>}
closed_status_mask(row) == row.Lead_Status = Closed
contract_amount_mask(row) == GE0(row.Contract_Amount)
numbers3_mask_non_null(row) == ~IsNaN(row.Numbers3)
numbers3_mask(row) == GE0(row.Numbers3)
both_null_mask_off(row) == FALSE
both_null_mask(row) == IsNaN(row.Contract_Amount) /\ IsNaN(row.Numbers3)
final_mask(row) ==
    closed_status_mask(row)
    /\ (contract_amount_mask(row) \/ numbers3_mask(row) \/ both_null_mask(row))
year_2025_mask_parsed(row) == dt_year(to_datetime(row.Close_Date)) = Num(2025)
year_2025_mask(row) == Contains(row.Close_Date, Lit2025)

\* lines 280-283: Close Date parsed, Year / Month / Month_Name derived
WithYearMonth(row) ==
    LET date == to_datetime(row.Close_Date)
    IN [index |-> row.index, Item |-> row.Item, Close_Date |-> date,
        Lead_Status |-> row.Lead_Status,
        Amount_Paid_or_Contract_Value |-> row.Amount_Paid_or_Contract_Value,
        Contract_Amount |-> row.Contract_Amount, Numbers3 |-> row.Numbers3,
        Assigned_Person |-> row.Assigned_Person, Client_Type |-> row.Client_Type,
        Total_Value |-> row.Total_Value,
        Year |-> dt_year(date), Month |-> dt_month(date), Month_Name |-> strftime_B(date)]

\* what process_sales_data returns: one empty DataFrame, or the pair
\* (df_filtered, df_2025)
OneFrame == [kind |-> "frame", df_filtered |-> <<>>, df_2025 |-> <<>>]
Pair(f, y) == [kind |-> "pair", df_filtered |-> f, df_2025 |-> y]

\* df as it stands after line 259
SalesFrame(items) == [i \in 1..Len(items) |-> SalesRow(SalesRecord(items, i))]

process_sales_data(data) ==
    IF data.kind = "None" \/ data.boards = "absent" THEN OneFrame
    ELSE IF data.boards = "empty" THEN OneFrame
    ELSE IF data.items = <<>> THEN OneFrame
    ELSE LET df == SalesFrame(data.items)
             \* df[mask]: the rows the mask keeps, in order
             df_filtered == SelectSeq(df, final_mask)
             df_2025 == SelectSeq(df_filtered, year_2025_mask)
         IN Pair([i \in 1..Len(df_filtered) |-> WithYearMonth(df_filtered[i])], df_2025)

(***************************************************************************)
(* State.                                                                  *)
(***************************************************************************)
VARIABLES
    page,        \* the script this session runs: "app" or "sales"
    board,       \* the items the Monday.com board holds, in board order
    pc,          \* position of the script run: "idle" (page displayed, waiting
                 \* for the user), "load" (at the call of the cached fetcher),
                 \* "call" (inside get_monday_data), "loop" (inside the while
                 \* loop of get_sales_data), "process" (fetcher returned)
    clock,       \* seconds since the session began
    cache,       \* the st.cache_data entry of the page's fetcher
    cursor,      \* get_sales_data: cursor
    all_items,   \* get_sales_data: all_items
    page_count,  \* get_sales_data: page_count
    data,        \* main: data
    view,        \* main: what the normalizer returned
    outcome,     \* how the last script run ended
    message,     \* the st.error the fetcher showed in this script run
    hist,        \* history: the responses the running fetch received, in order
    reqs,        \* history: requests sent to the API during this script run
    renders,     \* history: script runs begun
    last,        \* history: when the fetcher last ran to its return, and its result
    cleared,     \* history: the refresh action was used since then
    snap,        \* history: last, cleared and clock as the script run began
    failed,      \* history: a request failed since the last refresh action
    failed_at,   \* history: clock of that failure
    sent,        \* history: the cursor each request of the running fetch carried
    widgets,     \* st.session_state: the value of each selectbox
    shown        \* main: what the page displays below the header

vars == <<page, board, pc, clock, cache, cursor, all_items, page_count, data, view,
          outcome, message, hist, reqs, renders, last, cleared, snap, failed, failed_at,
          sent, widgets, shown>>

Min(a, b) == IF a < b THEN a ELSE b

(***************************************************************************)
(* Texts the boards hold.                                                  *)
(***************************************************************************)
T_2024_03_15 == <<"2", "0", "2", "4", "-", "0", "3", "-", "1", "5">>
T_2024_01_10 == <<"2", "0", "2", "4", "-", "0", "1", "-", "1", "0">>
T_2025_01_10 == <<"2", "0", "2", "5", "-", "0", "1", "-", "1", "0">>
T_2024_13_45 == <<"2", "0", "2", "4", "-", "1", "3", "-", "4", "5">>
T_2024_02_05 == <<"2", "0", "2", "4", "-", "0", "2", "-", "0", "5">>
T_2025_13_45 == <<"2", "0", "2", "5", "-", "1", "3", "-", "4", "5">>
T_na == <<"n", "/", "a">>
T_abc == <<"a", "b", "c">>
T_closed == <<"c", "l", "o", "s", "e", "d">>
T_Open == <<"O", "p", "e", "n">>

\* a column the item does not carry at all
Absent == <<"absent">>

\* the column_values of an item: one pair per column the item carries
Cols(pairs) == SelectSeq(pairs, LAMBDA c : c.text # Absent)

AdspendItem(id, date, amount) ==
    RawItem(id, <<"A">>, Cols(<<Col("date_mkv81p3z", date), Col("numeric_mkv863mb", amount),
                               Col("text_other", <<"x">>)>>))

SalesItem(id, status, contract, numbers3, date) ==
    RawItem(id, <<"S">>, Cols(<<Col("color_mknxd1j2", status), Col("contract_amt", contract),
                               Col("numbers3", numbers3), Col("date_mktq7npm", date),
                               Col("color_mkvewcwe", <<"J">>), Col("status_14__1", None)>>))

AdspendDates == {Absent, None, T_2024_03_15, T_2024_01_10, T_2024_13_45, T_na}
AdspendAmounts == {Absent, <<"1", "2">>, T_abc}
SalesStatuses == {Closed, T_closed, T_Open}
SalesContracts == {None, <<"0">>, <<"1", "2", "0">>, <<"$", "1", ",", "2", "0", "0">>, <<"-", "5">>}
SalesNumbers3 == {Absent, <<"5", "0", "0">>, <<"-", "7">>}
SalesDates == <<T_2025_01_10, T_2024_03_15, None>>

\* the item the live board holds at position i: on the sales board every
\* second item is closed
BoardItem(p, i) ==
    IF p = "app"
    THEN RawItem(i, <<"A">>, <<Col("date_mkv81p3z", IF i % 2 = 1 THEN T_2024_03_15 ELSE None),
                               Col("numeric_mkv863mb", <<"1", "2">>)>>)
    ELSE RawItem(i, <<"S">>, <<Col("color_mknxd1j2", IF i % 2 = 0 THEN Closed ELSE T_Open),
                               Col("contract_amt", <<"1", "2", "0">>)>>)

Board(p, n) == [i \in 1..n |-> BoardItem(p, i)]

(***************************************************************************)
(* st.cache_data                                                           *)
(***************************************************************************)
NoCache == [valid |-> FALSE, value |-> NoneData, stamp |-> 0, message |-> "none"]

\* the entry is served while it is younger than ttl seconds
FreshAtTtl(c, now) == c.valid /\ now - c.stamp <= ttl
Fresh(c, now) == c.valid /\ now - c.stamp < ttl

\* the decorator stores whatever the function returned (None included) with the
\* elements it showed
Store(value, msg, now) == [valid |-> TRUE, value |-> value, stamp |-> now, message |-> msg]

\* st.cache_data.clear()
Clear(c) == NoCache

(***************************************************************************)
(* The Monday.com API as the fetchers see it.                              *)
(* A cursor is None, the empty string or an opaque token; the token the    *)
(* server hands out stands for a position in the board.  One response is   *)
(* [kind, items, cursor]: kind "ok" carries a page, the other kinds are    *)
(* the failures the fetchers tell apart.                                   *)
(***************************************************************************)
Cur(p) == <<"cursor", p>>
CursorPos(c) == IF Truthy(c) THEN c[2] ELSE 0

Failures == {"timeout", "neterr", "unexpected", "apierr", "noboard"}
Failure(k) == [kind |-> k, items |-> <<>>, cursor |-> None]
PageOf(pos, n, c) == [kind |-> "ok", items |-> SubSeq(board, pos + 1, pos + n), cursor |-> c]

\* every answer the server may give to items_page(limit, cursor): a failure, or
\* up to `limit` items from the cursor's position on, with any next cursor
Responses(c) ==
    LET pos == CursorPos(c)
    IN {Failure(k) : k \in Failures}
       \cup {PageOf(pos, n, nc) : n \in 0..Min(limit, Len(board) - pos),
                                  nc \in {None, <<>>} \cup {Cur(q) : q \in 0..Len(board)}}

\* every answer to the single items_page(limit: 100) query of the ad-spend page
AppResponses ==
    {Failure(k) : k \in Failures} \cup {PageOf(0, Min(app_limit, Len(board)), None)}

\* the message st.error shows for a failure
ErrorMessage(k) ==
    CASE k = "timeout" -> "Request timed out. Please try again."
      [] k = "neterr" -> "Error fetching data"
      [] k = "unexpected" -> "Unexpected error"
      [] k = "apierr" -> "API Error"
      [] k = "noboard" -> "No board data found"
      [] OTHER -> "none"

(***************************************************************************)
(* src/pages/sales_dashboard.py: get_sales_data, one pass of `while True`  *)
(***************************************************************************)
\* line 144: `if not cursor or len(items) < limit: break`
EndOfDataCursorOnly(c, items) == ~Truthy(c)
EndOfData(c, items) == ~Truthy(c) \/ Len(items) < limit

\* what the loop body does with a response: "return None" (the except
\* clauses), "break" (API errors, no board data, end of data) or "next page"
SalesDispositionRetries(r) ==
    IF r.kind \in {"timeout", "neterr", "unexpected"} THEN "next page"
    ELSE IF r.kind \in {"apierr", "noboard"} THEN "break"
    ELSE IF EndOfData(r.cursor, r.items) THEN "break"
    ELSE "next page"
SalesDisposition(r) ==
    IF r.kind \in {"timeout", "neterr", "unexpected"} THEN "return None"
    ELSE IF r.kind \in {"apierr", "noboard"} THEN "break"
    ELSE IF EndOfData(r.cursor, r.items) THEN "break"
    ELSE "next page"

\* lines 161-169: the dictionary the function returns after the loop
SalesResult(items) == Json(FALSE, "present", items)

\* the fetcher returns `value` having shown `msg`: the decorator stores the
\* value and main goes on with it
Return(value, msg) ==
    /\ pc' = "process"
    /\ data' = value
    /\ message' = msg
    /\ cache' = Store(value, msg, clock)
    /\ last' = [at |-> clock, result |-> value]
    /\ cleared' = FALSE

\* a response of a failing kind is remembered until the next refresh action
NoteFailure(r) ==
    IF r.kind \in Failures
    THEN failed' = TRUE /\ failed_at' = clock
    ELSE UNCHANGED <<failed, failed_at>>

\* lines 81-120: the query carries `cursor` when it is truthy, no cursor otherwise
RequestCursor(c) == IF Truthy(c) THEN c ELSE None

\* line 136: `cursor = items_page.get("cursor")`, reached by a page only
NextCursorKeepsFirst(c, r) == IF r.kind = "ok" /\ ~Truthy(c) THEN r.cursor ELSE c
NextCursor(c, r) == IF r.kind = "ok" THEN r.cursor ELSE c

FetchPage ==
    /\ pc = "loop"
    /\ page_count < MaxPages
    /\ \E r \in Responses(RequestCursor(cursor)) :
        /\ page_count' = page_count + 1
        /\ reqs' = reqs + 1
        /\ hist' = Append(hist, r)
        /\ sent' = Append(sent, RequestCursor(cursor))
        /\ NoteFailure(r)
        /\ cursor' = NextCursor(cursor, r)
        /\ all_items' = IF r.kind = "ok" THEN all_items \o r.items ELSE all_items
        /\ CASE SalesDisposition(r) = "return None" ->
                    Return(NoneData, ErrorMessage(r.kind))
             [] SalesDisposition(r) = "break" ->
                    Return(SalesResult(all_items'), ErrorMessage(r.kind))
             [] OTHER ->
                    UNCHANGED <<pc, data, message, cache, last, cleared>>
    /\ UNCHANGED <<page, board, clock, view, outcome, renders, snap, widgets, shown>>

(***************************************************************************)
(* src/app.py: get_monday_data                                             *)
(***************************************************************************)
\* lines 97-109: response.json() as it is, or None from the except clauses
MondayResult(r) ==
    CASE r.kind \in {"timeout", "neterr", "unexpected"} -> NoneData
      [] r.kind = "apierr" -> Json(TRUE, "absent", <<>>)
      [] r.kind = "noboard" -> Json(FALSE, "empty", <<>>)
      [] OTHER -> Json(FALSE, "present", r.items)

MondayMessage(r) ==
    IF r.kind \in {"timeout", "neterr", "unexpected"} THEN ErrorMessage(r.kind) ELSE "none"

CallApi ==
    /\ pc = "call"
    /\ \E r \in AppResponses :
        /\ reqs' = reqs + 1
        /\ hist' = Append(hist, r)
        /\ sent' = Append(sent, None)
        /\ NoteFailure(r)
        /\ Return(MondayResult(r), MondayMessage(r))
    /\ UNCHANGED <<page, board, clock, view, outcome, renders, snap, cursor, all_items,
                   page_count, widgets, shown>>

(***************************************************************************)
(* The cached call `data = get_..._data()` of main.                        *)
(***************************************************************************)
CacheHit ==
    /\ pc = "load"
    /\ Fresh(cache, clock)
    /\ data' = cache.value
    /\ message' = cache.message
    /\ pc' = "process"
    /\ UNCHANGED <<page, board, clock, cache, cursor, all_items, page_count, view, outcome,
                   hist, reqs, renders, last, cleared, snap, failed, failed_at, sent,
                   widgets, shown>>

CacheMiss ==
    /\ pc = "load"
    /\ ~Fresh(cache, clock)
    /\ pc' = IF page = "app" THEN "call" ELSE "loop"
    /\ cursor' = None
    /\ all_items' = <<>>
    /\ page_count' = 0
    /\ hist' = <<>>
    /\ sent' = <<>>
    /\ UNCHANGED <<page, board, clock, cache, data, view, outcome, message, reqs, renders,
                   last, cleared, snap, failed, failed_at, widgets, shown>>

(***************************************************************************)
(* main after the fetch: normalize and render.                             *)
(***************************************************************************)
NoView == [kind |-> "none", df_filtered |-> <<>>, df_2025 |-> <<>>]
\* the DataFrame format_data returned
Frame(df) == [kind |-> "frame", df_filtered |-> df, df_2025 |-> <<>>]

Normalize(p, d) == IF p = "app" THEN Frame(format_data(d)) ELSE process_sales_data(d)

\* src/app.py lines 190-287 and src/pages/sales_dashboard.py lines 317-321:
\* "exception" is the ValueError of unpacking one DataFrame without columns
\* into two names; "warning" is the st.warning of the empty case
RenderOutcome(p, v) ==
    IF p = "sales" /\ v.kind = "frame" THEN "exception"
    ELSE IF v.df_filtered = <<>> THEN "warning"
    ELSE "dashboard"

(***************************************************************************)
(* main below the header: selectors, charts, table and export.  A chart is *)
(* the set of its bars; the order sort_values gives them is left out.      *)
(***************************************************************************)
RECURSIVE sum(_)
\* Series.sum(): NaN counts as nothing, an empty series sums to 0
sum(values) ==
    IF values = <<>> THEN 0
    ELSE (IF IsNaN(Head(values)) THEN 0 ELSE Val(Head(values))) + sum(Tail(values))

\* a text cell that is present ("" is a value of a text column, not NaN)
Text(t) == <<t>>

\* groupby(keys)['Total Value'].sum() over rows paired with their key: one
\* group per distinct key, the rows with a NaN in their key in no group
groupby_sum(keyed) ==
    LET keys == {keyed[i].key : i \in 1..Len(keyed)}
        whole == {k \in keys : \A n \in 1..Len(k) : ~IsNaN(k[n])}
    IN {[key |-> k,
         Total_Value |-> LET rows == SelectSeq(keyed, LAMBDA r : r.key = k)
                         IN sum([i \in 1..Len(rows) |-> rows[i].Total_Value])] : k \in whole}

\* sales lines 378-384: "Sales by Month (2025)"
monthly_sales(df_2025) ==
    groupby_sum([i \in 1..Len(df_2025) |->
        LET row == WithYearMonth(df_2025[i])
        IN [key |-> <<row.Month, row.Month_Name>>, Total_Value |-> row.Total_Value]])

\* sales lines 414-420: "Sales by Year"
yearly_sales_keeps_nat(df_filtered) ==
    groupby_sum([i \in 1..Len(df_filtered) |->
        [key |-> <<IF IsNaN(df_filtered[i].Year) THEN Num(0) ELSE df_filtered[i].Year>>,
         Total_Value |-> df_filtered[i].Total_Value]])
yearly_sales(df_filtered) ==
    groupby_sum([i \in 1..Len(df_filtered) |->
        [key |-> <<df_filtered[i].Year>>, Total_Value |-> df_filtered[i].Total_Value]])

\* sales lines 449-450: "Comparison of Revenue by Year by Month"
monthly_yearly_by_month(df_filtered) ==
    groupby_sum([i \in 1..Len(df_filtered) |->
        [key |-> <<df_filtered[1].Year, df_filtered[i].Month, df_filtered[i].Month_Name>>,
         Total_Value |-> df_filtered[i].Total_Value]])
monthly_yearly(df_filtered) ==
    groupby_sum([i \in 1..Len(df_filtered) |->
        [key |-> <<df_filtered[i].Year, df_filtered[i].Month, df_filtered[i].Month_Name>>,
         Total_Value |-> df_filtered[i].Total_Value]])

\* sales lines 506 and 592: the years the selectors offer
available_years(df_filtered) ==
    {df_filtered[i].Year : i \in {j \in 1..Len(df_filtered) : ~IsNaN(df_filtered[j].Year)}}

\* sales lines 507 and 593: 2025 when it is offered, the earliest year otherwise;
\* a selectbox without options has no value (NaN here)
default_year(years) ==
    IF Num(2025) \in years THEN Num(2025)
    ELSE IF years = {} THEN NaN
    ELSE CHOOSE y \in years : \A z \in years : Val(y) <= Val(z)

\* st.selectbox: the value the user picked while it is among the options,
\* the default otherwise
selectbox(value, options, default) == IF value \in options THEN value ELSE default

\* sales lines 510 and 596: df_filtered[df_filtered['Year'] == selected]
df_year(df_filtered, selected) ==
    SelectSeq(df_filtered, LAMBDA row : ~IsNaN(selected) /\ row.Year = selected)

\* sales line 513: groupby(['Month', 'Month_Name', 'Assigned Person'])
salesman_monthly(df) ==
    groupby_sum([i \in 1..Len(df) |->
        [key |-> <<df[i].Month, df[i].Month_Name, Text(df[i].Assigned_Person)>>,
         Total_Value |-> df[i].Total_Value]])

\* sales line 599: groupby(['Month', 'Month_Name', 'Client Type'])
category_monthly(df) ==
    groupby_sum([i \in 1..Len(df) |->
        [key |-> <<df[i].Month, df[i].Month_Name, Text(df[i].Client_Type)>>,
         Total_Value |-> df[i].Total_Value]])

IsSpace(c) == c \in {" ", "\t", "\n"}

RECURSIVE lstrip(_)
lstrip(t) == IF t # <<>> /\ IsSpace(Head(t)) THEN lstrip(Tail(t)) ELSE t

RECURSIVE rstrip(_)
rstrip(t) == IF t # <<>> /\ IsSpace(t[Len(t)]) THEN rstrip(SubSeq(t, 1, Len(t) - 1)) ELSE t

\* str.strip()
strip(t) == rstrip(lstrip(t))

Unassigned == <<"U", "n", "a", "s", "s", "i", "g", "n", "e", "d">>
Uncategorized == <<"U", "n", "c", "a", "t", "e", "g", "o", "r", "i", "z", "e", "d">>

\* sales lines 545 and 631: `x if x and x.strip() else fallback`
trace_name(t, fallback) == IF t # <<>> /\ strip(t) # <<>> THEN t ELSE fallback

\* sales lines 527-561 and 613-647: one go.Bar trace per distinct value of the
\* label column, named by trace_name, holding that value's monthly bars
traces(monthly, fallback) ==
    LET labels == {b.key[3][1] : b \in monthly}
    IN {[label |-> l,
         name |-> trace_name(l, fallback),
         bars |-> {[Month |-> b.key[1], Month_Name |-> b.key[2],
                    Total_Value |-> b.Total_Value] : b \in {c \in monthly : c.key[3][1] = l}}]
        : l \in labels}

RECURSIVE str(_)
\* str(year) of a positive integer
str(n) == IF n < 10 THEN <<Digits[n + 1]>> ELSE str(n \div 10) \o <<Digits[(n % 10) + 1]>>

AllYears == <<"A", "l", "l", " ", "Y", "e", "a", "r", "s">>

\* app lines 198-200: the dated rows, with their Year column
df_with_dates(df) ==
    LET dated == SelectSeq(df, LAMBDA row : ~IsNaN(row.Attribution_Date))
    IN [i \in 1..Len(dated) |->
           [index |-> dated[i].index, Item |-> dated[i].Item,
            Attribution_Date |-> dated[i].Attribution_Date,
            Google_Adspend |-> dated[i].Google_Adspend,
            Month_Year |-> dated[i].Month_Year,
            Year |-> dt_year(dated[i].Attribution_Date)]]

\* the columns of a frame of the ad-spend page, in their order: those of the
\* records, Month Year (line 159), and Year where line 200 added it
columns(dated) ==
    <<"Item", "Attribution Date", "Google Adspend", "Month Year">>
    \o (IF dated = <<>> THEN <<>> ELSE <<"Year">>)

\* app lines 201-204
year_options(dated) == {AllYears} \cup {str(Val(dated[i].Year)) : i \in 1..Len(dated)}

\* app lines 208-217
app_df_filtered(dated, selected_year) ==
    IF selected_year = AllYears THEN dated
    ELSE SelectSeq(dated, LAMBDA row : row.Year = Num(DigitsValue(selected_year)))

\* app line 228
df_chart(filtered) ==
    SelectSeq(filtered, LAMBDA row : ~IsNaN(row.Attribution_Date) /\ ~IsNaN(row.Google_Adspend))

\* app lines 267-269
display_columns(cols) ==
    IF \E i \in 1..Len(cols) : cols[i] = "Year"
    THEN <<"Item", "Attribution Date", "Year", "Google Adspend">>
    ELSE <<"Item", "Attribution Date", "Google Adspend">>

Cell(row, column) ==
    CASE column = "Item" -> row.Item
      [] column = "Attribution Date" -> row.Attribution_Date
      [] column = "Google Adspend" -> row.Google_Adspend
      [] column = "Month Year" -> row.Month_Year
      [] column = "Year" -> row.Year

\* df[cols]: the named columns of every row, in the order named
Table(rows, cols) ==
    [columns |-> cols,
     rows |-> [i \in 1..Len(rows) |-> [c \in 1..Len(cols) |-> Cell(rows[i], cols[c])]]]

\* app line 278: df_chart.to_csv(index=False) writes every column of df_chart
to_csv(rows, cols) == Table(rows, cols)

\* df.index: the position each row had in the fetched collection
row_index(df) == [i \in 1..Len(df) |-> df[i].index]

NoTable == [columns |-> <<>>, rows |-> <<>>]

\* no selectbox has a value
NoWidgets == [selected_year |-> None, salesman_year |-> NaN, category_year |-> NaN]

\* nothing displayed below the header
NoShow == [monthly_sales |-> {}, yearly_sales |-> {}, monthly_yearly |-> {},
           df_salesman_year |-> <<>>, salesman |-> {},
           df_category_year |-> <<>>, categories |-> {},
           total_adspend |-> 0, table |-> NoTable, csv |-> NoTable]

\* the value every selectbox has after the script run; a selectbox the run did
\* not reach has none
Selected(p, v, o, w) ==
    IF o # "dashboard" THEN NoWidgets
    ELSE IF p = "app"
    THEN LET dated == df_with_dates(v.df_filtered)
         IN [NoWidgets EXCEPT !.selected_year =
                IF dated = <<>> THEN None
                ELSE selectbox(w.selected_year, year_options(dated), AllYears)]
    ELSE LET years == available_years(v.df_filtered)
         IN [NoWidgets EXCEPT
                !.salesman_year = selectbox(w.salesman_year, years, default_year(years)),
                !.category_year = selectbox(w.category_year, years, default_year(years))]

\* app lines 194-287, sales lines 374-672
Show(p, v, o, w) ==
    IF o # "dashboard" THEN NoShow
    ELSE IF p = "app"
    THEN LET dated == df_with_dates(v.df_filtered)
             filtered == IF dated = <<>> THEN dated
                         ELSE app_df_filtered(dated, w.selected_year)
             chart == df_chart(filtered)
         IN [NoShow EXCEPT
                !.total_adspend = sum([i \in 1..Len(filtered) |-> filtered[i].Google_Adspend]),
                !.table = IF chart = <<>> THEN NoTable
                          ELSE Table(chart, display_columns(columns(dated))),
                !.csv = IF chart = <<>> THEN NoTable
                        ELSE to_csv(chart, columns(dated))]
    ELSE LET df_salesman_year == df_year(v.df_filtered, w.salesman_year)
             df_category_year == df_year(v.df_filtered, w.category_year)
         IN [NoShow EXCEPT
                !.monthly_sales = monthly_sales(v.df_2025),
                !.yearly_sales = yearly_sales(v.df_filtered),
                !.monthly_yearly = monthly_yearly(v.df_filtered),
                !.df_salesman_year = row_index(df_salesman_year),
                !.salesman = traces(salesman_monthly(df_salesman_year), Unassigned),
                !.df_category_year = row_index(df_category_year),
                !.categories = traces(category_monthly(df_category_year), Uncategorized)]

\* the values the selectboxes can have after one interaction of the user with
\* the displayed page
Choices(p, v, o, w) ==
    IF o # "dashboard" THEN {w}
    ELSE IF p = "app"
    THEN LET dated == df_with_dates(v.df_filtered)
         IN IF dated = <<>> THEN {w}
            ELSE {[w EXCEPT !.selected_year = y] : y \in year_options(dated)}
    ELSE LET years == available_years(v.df_filtered)
         IN {w} \cup {[w EXCEPT !.salesman_year = y] : y \in years}
                \cup {[w EXCEPT !.category_year = y] : y \in years}

Process ==
    /\ pc = "process"
    /\ view' = Normalize(page, data)
    /\ outcome' = RenderOutcome(page, view')
    /\ widgets' = Selected(page, view', outcome', widgets)
    /\ shown' = Show(page, view', outcome', widgets')
    /\ pc' = "idle"
    /\ cursor' = None
    /\ all_items' = <<>>
    /\ page_count' = 0
    /\ hist' = <<>>
    /\ sent' = <<>>
    /\ UNCHANGED <<page, board, clock, cache, data, message, reqs, renders, last, cleared,
                   snap, failed, failed_at>>

(***************************************************************************)
(* The user and the clock.                                                 *)
(***************************************************************************)
BeginRun ==
    /\ pc' = "load"
    /\ renders' = renders + 1
    /\ reqs' = 0
    /\ message' = "none"

\* any interaction that reruns the script: the first load, or the user
\* picking an option of a displayed selectbox
Rerun ==
    /\ pc = "idle"
    /\ renders < MaxRenders
    /\ BeginRun
    /\ widgets' \in Choices(page, view, outcome, widgets)
    /\ snap' = [at |-> last.at, cleared |-> cleared, result |-> last.result]
    /\ UNCHANGED <<page, board, clock, cache, cursor, all_items, page_count, data, view,
                   outcome, hist, last, cleared, failed, failed_at, sent, shown>>

\* the "Refresh Data" button: st.cache_data.clear(); st.rerun()
Refresh ==
    /\ pc = "idle"
    /\ renders >= 1
    /\ renders < MaxRenders
    /\ cache' = Clear(cache)
    /\ cleared' = TRUE
    /\ failed' = FALSE
    /\ BeginRun
    /\ snap' = [at |-> last.at, cleared |-> TRUE, result |-> last.result]
    /\ UNCHANGED <<page, board, clock, cursor, all_items, page_count, data, view, outcome,
                   hist, last, failed_at, sent, widgets, shown>>

Tick ==
    /\ pc = "idle"
    /\ \E d \in {150} :
        /\ clock + d <= MaxClock
        /\ clock' = clock + d
    /\ UNCHANGED <<page, board, pc, cache, cursor, all_items, page_count, data, view, outcome,
                   message, hist, reqs, renders, last, cleared, snap, failed, failed_at,
                   sent, widgets, shown>>

(***************************************************************************)
(* Specification of a session of one page.                                 *)
(***************************************************************************)
NoRun == [at |-> 0 - 1, result |-> NoneData]

\* the state before the first script run of a session of page p over a board
\* of n items
Start(p, n) ==
    /\ page = p
    /\ board = Board(p, n)
    /\ pc = "idle"
    /\ clock = 0
    /\ cache = NoCache
    /\ cursor = None
    /\ all_items = <<>>
    /\ page_count = 0
    /\ data = NoneData
    /\ view = NoView
    /\ outcome = "none"
    /\ message = "none"
    /\ hist = <<>>
    /\ reqs = 0
    /\ renders = 0
    /\ last = NoRun
    /\ cleared = FALSE
    /\ snap = [at |-> 0 - 1, cleared |-> FALSE, result |-> NoneData]
    /\ failed = FALSE
    /\ failed_at = 0
    /\ sent = <<>>
    /\ widgets = NoWidgets
    /\ shown = NoShow

\* a session: script runs, refreshes and the passing of time, over a board of
\* at most one page
Init == \E p \in {"app", "sales"}, n \in 0..limit : Start(p, n)

Next ==
    \/ Rerun
    \/ Refresh
    \/ Tick
    \/ CacheHit
    \/ CacheMiss
    \/ FetchPage
    \/ CallApi
    \/ Process

Spec == Init /\ [][Next]_vars

(***************************************************************************)
(* Specification of one script run with an empty cache, over boards of up  *)
(* to MaxBoard items.                                                      *)
(***************************************************************************)
InitFetch == \E p \in {"app", "sales"}, n \in 0..MaxBoard : Start(p, n)

NextFetch ==
    \/ (renders = 0 /\ Rerun)
    \/ CacheMiss
    \/ FetchPage
    \/ CallApi
    \/ Process

SpecFetch == InitFetch /\ [][NextFetch]_vars

(***************************************************************************)
(* Specification of one normalization: main holds a fetched collection of  *)
(* up to MaxItems raw items of any shape and normalizes it.                *)
(***************************************************************************)
AdspendShapes == AdspendDates \X AdspendAmounts
SalesShapes == SalesStatuses \X SalesContracts \X SalesNumbers3

\* the item of shape f at position i of the fetched collection
ShapedItem(p, i, f) ==
    IF p = "app" THEN AdspendItem(i, f[1], f[2])
    ELSE SalesItem(i, f[1], f[2], f[3], SalesDates[((i - 1) % 3) + 1])

InitNorm ==
    \E p \in {"app", "sales"} :
        /\ page = p
        /\ board = <<>>
        /\ pc = "process"
        /\ clock = 0
        /\ data = Json(FALSE, "present", <<>>)
        /\ cache = Store(data, "none", 0)
        /\ cursor = None
        /\ all_items = <<>>
        /\ page_count = 0
        /\ view = NoView
        /\ outcome = "none"
        /\ message = "none"
        /\ hist = <<>>
        /\ reqs = 1
        /\ renders = 1
        /\ last = [at |-> 0, result |-> data]
        /\ cleared = FALSE
        /\ snap = [at |-> 0 - 1, cleared |-> FALSE, result |-> NoneData]
        /\ failed = FALSE
        /\ failed_at = 0
        /\ sent = <<>>
        /\ widgets = NoWidgets
        /\ shown = NoShow

\* the fetched collection holds one more item, of any shape
Collect ==
    /\ pc = "process"
    /\ Len(data.items) < MaxItems
    /\ \E f \in (IF page = "app" THEN AdspendShapes ELSE SalesShapes) :
        data' = [data EXCEPT !.items = Append(@, ShapedItem(page, Len(@) + 1, f))]
    /\ board' = data'.items
    /\ cache' = Store(data', "none", 0)
    /\ last' = [at |-> 0, result |-> data']
    /\ UNCHANGED <<page, pc, clock, cursor, all_items, page_count, view, outcome, message,
                   hist, reqs, renders, cleared, snap, failed, failed_at, sent, widgets,
                   shown>>

NextNorm ==
    \/ Collect
    \/ Process

SpecNorm == InitNorm /\ [][NextNorm]_vars

(***************************************************************************)
(* Specification of one displayed page: main holds a fetched collection of *)
(* up to MaxRows raw items, displays it, and the user picks one option of  *)
(* a selectbox, which reruns the script over the cached collection.        *)
(***************************************************************************)
ViewAdspendShapes == {T_2024_03_15, T_2025_01_10, None} \X {<<"1", "2">>, T_abc}
ViewDates == {T_2024_01_10, T_2024_02_05, T_2025_01_10, T_2025_13_45}
ViewLabels == {<<"J">>, None, <<" ">>}
ViewSalesShapes ==
    (ViewDates \X ViewLabels \X {Closed})
    \cup {<<T_2025_01_10, <<"J">>, T_Open>>, <<None, <<"J">>, Closed>>}
ViewAmounts == <<<<"1", "0", "0">>, <<"2", "0", "0">>, <<"5", "0">>>>

\* the item of shape f at position i: a sales item carries the amount of its
\* position and one text as its person and its client type
ViewItem(p, i, f) ==
    IF p = "app" THEN AdspendItem(i, f[1], f[2])
    ELSE RawItem(i, <<"S">>,
                 <<Col("color_mknxd1j2", f[3]),
                   Col("contract_amt", ViewAmounts[((i - 1) % 3) + 1]),
                   Col("date_mktq7npm", f[1]),
                   Col("color_mkvewcwe", f[2]), Col("status_14__1", f[2])>>)

\* before the page is first displayed, the fetched collection holds one more item
Gather ==
    /\ pc = "process"
    /\ outcome = "none"
    /\ Len(data.items) < MaxRows
    /\ \E f \in (IF page = "app" THEN ViewAdspendShapes ELSE ViewSalesShapes) :
        data' = [data EXCEPT !.items = Append(@, ViewItem(page, Len(@) + 1, f))]
    /\ board' = data'.items
    /\ cache' = Store(data', "none", 0)
    /\ last' = [at |-> 0, result |-> data']
    /\ UNCHANGED <<page, pc, clock, cursor, all_items, page_count, view, outcome, message,
                   hist, reqs, renders, cleared, snap, failed, failed_at, sent, widgets,
                   shown>>

NextView ==
    \/ Gather
    \/ Process
    \/ (renders = 1 /\ Rerun)
    \/ CacheHit

SpecView == InitNorm /\ [][NextView]_vars

(***************************************************************************)
(* Properties.                                                             *)
(***************************************************************************)
RECURSIVE Concat(_)
\* the items of a sequence of responses, in order
Concat(h) == IF h = <<>> THEN <<>> ELSE Head(h).items \o Concat(Tail(h))

AllOk(h) == \A i \in 1..Len(h) : h[i].kind = "ok"

\* a response that carries no cursor (null or empty) or fewer than `limit` items
LastPage(r) == r.cursor \in {None, <<>>} \/ Len(r.items) < limit

Sizes(h) == [i \in 1..Len(h) |-> Len(h[i].items)]

\* the fetcher of the running script has just returned to main
Returned == pc = "process" /\ reqs > 0

\* C1: against pages that all arrive without failure, get_sales_data stops at
\* the first response that carries no cursor or fewer than `limit` items: while
\* it is in the loop no such response has been received, and when it returns
\* that response is the last of its k requests and the items returned are the
\* concatenation, in order, of the items of pages 1..k.
C1_StopsAtFirstLastPage ==
    (page = "sales" /\ AllOk(hist)) =>
        /\ pc = "loop" =>
            /\ page_count = Len(hist)
            /\ \A i \in 1..Len(hist) : ~LastPage(hist[i])
            /\ all_items = Concat(hist)
        /\ Returned =>
            /\ hist # <<>>
            /\ LastPage(hist[Len(hist)])
            /\ \A i \in 1..(Len(hist) - 1) : ~LastPage(hist[i])
            /\ page_count = Len(hist)
            /\ reqs = Len(hist)
            /\ data = SalesResult(Concat(hist))

\* pages of sizes [limit, limit, short] give three requests and all their items
C1_Witness ==
    /\ page = "sales" /\ Returned /\ AllOk(hist)
    /\ Len(hist) = 3
    /\ Sizes(hist) = <<limit, limit, limit - 1>>
    /\ reqs = 3
    /\ Len(data.items) = 3 * limit - 1

\* three full pages followed by an empty page with an empty cursor: the fetch
\* has returned after the fourth request
C1_WitnessEmptyLastPage ==
    /\ page = "sales" /\ Returned /\ AllOk(hist)
    /\ Sizes(hist) = <<limit, limit, limit, 0>>
    /\ hist[4].cursor = <<>>
    /\ Len(data.items) = 3 * limit

\* the server answers every request without error and as the API documents:
\* the next `limit` items from the cursor's position, and a cursor exactly
\* when items remain after them
HonestPage(r, pos, lim) ==
    /\ r.kind = "ok"
    /\ r.items = SubSeq(board, pos + 1, Min(pos + lim, Len(board)))
    /\ r.cursor = IF pos + lim < Len(board) THEN Cur(pos + lim) ELSE None

Honest(h) ==
    IF page = "app" THEN \A i \in 1..Len(h) : h[i] = PageOf(0, Min(app_limit, Len(board)), None)
    ELSE \A i \in 1..Len(h) :
            HonestPage(h[i], IF i = 1 THEN 0 ELSE CursorPos(h[i - 1].cursor), limit)

\* C2: against a server that answers every request without error, the fetcher
\* of either page returns every item of the board exactly once.
C2_FetchIsComplete ==
    (Returned /\ Honest(hist)) => (data.kind = "json" /\ data.items = board)

\* the part of C2 that is about get_sales_data alone
C2_SalesFetchIsComplete ==
    (page = "sales" /\ Returned /\ Honest(hist)) => (data.kind = "json" /\ data.items = board)

\* the server returned a cursor it had already returned earlier in this fetch
RepeatedCursor(h) ==
    \E i, j \in 1..Len(h) :
        /\ i < j
        /\ h[i].kind = "ok" /\ h[j].kind = "ok"
        /\ Truthy(h[i].cursor)
        /\ h[i].cursor = h[j].cursor

\* C3: a fetch in which the server repeated a cursor ends in an error outcome,
\* never as a successful result.
C3_RepeatedCursorIsError ==
    (page = "sales" /\ Returned /\ RepeatedCursor(hist)) =>
        (data = NoneData \/ message # "none")

\* C4: a fetch one of whose page requests failed returns no data: the items of
\* its earlier pages are not returned.
C4_FailureReturnsNoData ==
    (page = "sales" /\ Returned /\ ~AllOk(hist)) => data.items = <<>>

\* the script run has ended
Rendered == pc = "idle" /\ renders > 0

\* C5: a script run whose fetch failed or brought zero items ends normally on
\* an empty data set with a non-fatal message, without an exception.
C5_EmptyDataRendersWarning ==
    (Rendered /\ data.items = <<>>) => outcome = "warning"

\* what the cache should do for this script run, from the history alone: the
\* fetcher last returned less than ttl seconds before it, no refresh since
ServedFromCache == snap.at >= 0 /\ ~snap.cleared /\ clock - snap.at < ttl

\* C6: a script run less than five minutes after the fetch that filled the
\* cache, with no refresh in between, sends no request and uses the stored
\* result; a run after the window has expired, or the first after a refresh,
\* fetches anew and stores what the fetch returned.
C6_ReadThroughCache ==
    /\ pc \in {"call", "loop"} => ~ServedFromCache
    /\ pc = "process" =>
        IF ServedFromCache
        THEN reqs = 0 /\ data = snap.result
        ELSE reqs >= 1 /\ cache.valid /\ cache.value = data /\ cache.stamp = clock

\* a second script run 150 seconds after the first is served from the cache
C6_Witness ==
    /\ pc = "process" /\ renders = 2
    /\ ServedFromCache /\ clock - snap.at = 150
    /\ reqs = 0 /\ data = cache.value

\* a script run after the window has expired has fetched anew
C6_WitnessExpired ==
    /\ pc = "process" /\ renders = 2
    /\ snap.at >= 0 /\ ~snap.cleared /\ clock - snap.at >= ttl
    /\ reqs >= 1

\* the script run the refresh action starts has fetched anew inside the window
C6_WitnessRefreshed ==
    /\ pc = "process" /\ renders = 2
    /\ snap.at >= 0 /\ snap.cleared /\ clock - snap.at < ttl
    /\ reqs >= 1

\* this step sends a request to the API
SendsRequest == reqs' = reqs + 1

\* C7 as stated: once a request has failed, no request is sent until the
\* refresh action.
C7_NoRequestUntilRefresh == [][failed => ~SendsRequest]_vars

\* C7 amended: once a request has failed, no request is sent (by that fetch or
\* by a later script run) until the refresh action or until ttl seconds have
\* passed since the failure.
C7_NoRequestWhileCached == [][(failed /\ SendsRequest) => clock - failed_at >= ttl]_vars

\* a later script run, after a failed fetch and inside the window, has been
\* served the stored failure without a request
C7_Witness ==
    /\ failed /\ renders = 2 /\ pc = "process"
    /\ clock - failed_at < ttl
    /\ reqs = 0 /\ data = last.result

\* the text of column `id` of a raw item, Absent when the item has no such column
ColumnText(item, id) ==
    LET cols == item.column_values
        at == {i \in 1..Len(cols) : cols[i].id = id}
    IN IF at = {} THEN Absent ELSE cols[CHOOSE i \in at : \A j \in at : j <= i].text

RowsOf(df, i) == {j \in 1..Len(df) : df[j].index = i}

\* C8: format_data gives a non-empty collection exactly one row per raw item;
\* an item whose date or amount is absent, empty or unparseable keeps its row,
\* with a null date and label, or a null amount.
C8_OneRowPerItem ==
    (Rendered /\ page = "app" /\ data.items # <<>>) =>
        LET df == view.df_filtered
            items == data.items
        IN /\ Len(df) = Len(items)
           /\ \A i \in 1..Len(items) :
                /\ Cardinality(RowsOf(df, i)) = 1
                /\ \A j \in RowsOf(df, i) :
                    /\ df[j].Item = items[i].name
                    /\ ColumnText(items[i], "date_mkv81p3z") \notin {T_2024_03_15, T_2024_01_10}
                        => (df[j].Attribution_Date = NaN /\ df[j].Month_Year = NaN)
                    /\ ColumnText(items[i], "numeric_mkv863mb") # <<"1", "2">>
                        => df[j].Google_Adspend = NaN

\* a full collection with a dated row and a row without date and amount
C8_Witness ==
    /\ Rendered /\ page = "app" /\ Len(data.items) = MaxItems
    /\ Len(view.df_filtered) = MaxItems
    /\ \E j \in 1..Len(view.df_filtered) :
        view.df_filtered[j].Attribution_Date = NaN /\ view.df_filtered[j].Google_Adspend = NaN
    /\ \E j \in 1..Len(view.df_filtered) : view.df_filtered[j].Attribution_Date # NaN

\* Total Value as the fallback rule gives it
Fallback(row) ==
    IF ~IsNaN(row.Contract_Amount) /\ Val(row.Contract_Amount) # 0
    THEN row.Contract_Amount ELSE row.Numbers3

\* C9: in every row Total Value is Contract Amount when that is neither null
\* nor zero, and Numbers3 otherwise; it is never their sum.
C9_TotalValueFallback ==
    page = "sales" =>
        /\ \A i \in 1..Len(data.items) :
            LET row == SalesFrame(data.items)[i]
            IN /\ row.Total_Value = Fallback(row)
               /\ (ColumnText(data.items[i], "contract_amt") = <<"0">>
                   /\ ColumnText(data.items[i], "numbers3") = <<"5", "0", "0">>)
                    => row.Total_Value = Num(500)
               /\ (ColumnText(data.items[i], "contract_amt") = <<"1", "2", "0">>
                   /\ ColumnText(data.items[i], "numbers3") = <<"5", "0", "0">>)
                    => row.Total_Value = Num(120)
        /\ Rendered =>
            /\ \A j \in 1..Len(view.df_filtered) :
                view.df_filtered[j].Total_Value = Fallback(view.df_filtered[j])
            /\ \A j \in 1..Len(view.df_2025) :
                view.df_2025[j].Total_Value = Fallback(view.df_2025[j])

\* the two rows of the example, A = 0 with B = 500 and A = 120 with B = 500
C9_Witness ==
    /\ Rendered /\ page = "sales" /\ view.kind = "pair"
    /\ \E j \in 1..Len(view.df_filtered) :
        /\ view.df_filtered[j].Contract_Amount = Num(0)
        /\ view.df_filtered[j].Numbers3 = Num(500)
        /\ view.df_filtered[j].Total_Value = Num(500)
    /\ \E j \in 1..Len(view.df_filtered) :
        /\ view.df_filtered[j].Contract_Amount = Num(120)
        /\ view.df_filtered[j].Numbers3 = Num(500)
        /\ view.df_filtered[j].Total_Value = Num(120)

\* C10: every row of the two frames process_sales_data returns has Lead Status
\* exactly "Closed", and comes from an item whose status text is "Closed".
C10_OnlyClosedRows ==
    (Rendered /\ page = "sales") =>
        /\ \A j \in 1..Len(view.df_filtered) :
            /\ view.df_filtered[j].Lead_Status = Closed
            /\ ColumnText(data.items[view.df_filtered[j].index], "color_mknxd1j2") = Closed
        /\ \A j \in 1..Len(view.df_2025) :
            /\ view.df_2025[j].Lead_Status = Closed
            /\ ColumnText(data.items[view.df_2025[j].index], "color_mknxd1j2") = Closed

\* a "Closed" item of 2025 kept in both frames beside a "closed" item left out
C10_Witness ==
    /\ Rendered /\ page = "sales" /\ Len(data.items) = 2
    /\ ColumnText(data.items[1], "color_mknxd1j2") = Closed
    /\ ColumnText(data.items[2], "color_mknxd1j2") = T_closed
    /\ Len(view.df_filtered) = 1
    /\ Len(view.df_2025) = 1

\* the item's two amount texts are both null or non-numeric
BothAmountsAbsent(item) ==
    /\ ColumnText(item, "contract_amt") \in {Absent, None, <<>>, T_abc}
    /\ ColumnText(item, "numbers3") \in {Absent, None, <<>>, T_abc}

InFrame(df, i) == \E j \in 1..Len(df) : df[j].index = i

\* C11 as stated: whether a Closed row with both amounts null passes the
\* filter follows a "both absent is acceptable" toggle, so with the toggle
\* off the row is excluded.
C11_BothNullFollowsToggle ==
    \A toggle \in BOOLEAN :
        (Rendered /\ page = "sales") =>
            \A i \in 1..Len(data.items) :
                (ColumnText(data.items[i], "color_mknxd1j2") = Closed
                 /\ BothAmountsAbsent(data.items[i]))
                    => (InFrame(view.df_filtered, i) <=> toggle)

\* C11 amended: a Closed row with both amounts null always passes the filter
\* (with a null Total Value); nothing can switch that off.
C11_BothNullAlwaysPasses ==
    (Rendered /\ page = "sales") =>
        \A i \in 1..Len(data.items) :
            (ColumnText(data.items[i], "color_mknxd1j2") = Closed
             /\ BothAmountsAbsent(data.items[i]))
                => \E j \in 1..Len(view.df_filtered) :
                    /\ view.df_filtered[j].index = i
                    /\ view.df_filtered[j].Contract_Amount = NaN
                    /\ view.df_filtered[j].Numbers3 = NaN
                    /\ view.df_filtered[j].Total_Value = NaN

\* a Closed item without either amount, kept in df_filtered
C11_Witness ==
    /\ Rendered /\ page = "sales"
    /\ \E i \in 1..Len(data.items) :
        /\ ColumnText(data.items[i], "color_mknxd1j2") = Closed
        /\ BothAmountsAbsent(data.items[i])
        /\ InFrame(view.df_filtered, i)

Negative(x) == ~IsNaN(x) /\ Val(x) < 0

\* C18 as stated: every row of df_filtered has a Total Value that is null or
\* non-negative.
C18_TotalValueNeverNegative ==
    (Rendered /\ page = "sales") =>
        \A j \in 1..Len(view.df_filtered) :
            ~Negative(view.df_filtered[j].Total_Value)

\* C18 amended: a row of df_filtered has a null or non-negative Total Value
\* unless its Contract Amount is negative beside a non-negative Numbers3, or
\* its Contract Amount is zero beside a negative Numbers3; those rows pass
\* the filter and carry the negative amount as their Total Value.
C18_NegativeOnlyBesideNonNegative ==
    (Rendered /\ page = "sales") =>
        \A j \in 1..Len(view.df_filtered) :
            LET row == view.df_filtered[j]
            IN \/ ~Negative(row.Total_Value)
               \/ /\ Negative(row.Contract_Amount)
                  /\ GE0(row.Numbers3)
                  /\ row.Total_Value = row.Contract_Amount
               \/ /\ row.Contract_Amount = Num(0)
                  /\ Negative(row.Numbers3)
                  /\ row.Total_Value = row.Numbers3

\* a negative Contract Amount beside a non-negative Numbers3, kept
C18_Witness ==
    /\ Rendered /\ page = "sales"
    /\ \E j \in 1..Len(view.df_filtered) :
        /\ Negative(view.df_filtered[j].Contract_Amount)
        /\ GE0(view.df_filtered[j].Numbers3)
        /\ Negative(view.df_filtered[j].Total_Value)

\* a zero Contract Amount beside a negative Numbers3, kept
C18_WitnessZeroContract ==
    /\ Rendered /\ page = "sales"
    /\ \E j \in 1..Len(view.df_filtered) :
        /\ view.df_filtered[j].Contract_Amount = Num(0)
        /\ view.df_filtered[j].Total_Value = Num(0 - 7)

ViewRendered == Rendered /\ page = "sales" /\ outcome = "dashboard"

\* the Close Date text the fetched item at position i carries
DateText(i) == ColumnText(data.items[i], "date_mktq7npm")

\* the input texts that hold the characters 2025, and the year each input
\* text stands for as a calendar date (0: it is no date)
Texts2025 == {T_2025_01_10, T_2025_13_45}
CalendarYear(t) ==
    IF t \in {T_2024_01_10, T_2024_02_05, T_2024_03_15} THEN 2024
    ELSE IF t = T_2025_01_10 THEN 2025
    ELSE 0

Range(seq) == {seq[i] : i \in 1..Len(seq)}

\* C12: the 2025 view holds exactly the rows of df_filtered whose Close Date
\* text contains "2025", parseable or not; a year selector keeps exactly the
\* rows of df_filtered whose parsed date falls in the selected year, so a row
\* with "2025" in an unparseable text is in the 2025 view and not among the
\* rows selected for the year 2025.
C12_TwoYearFilters ==
    ViewRendered =>
        /\ Range(row_index(view.df_2025))
            = {i \in Range(row_index(view.df_filtered)) : DateText(i) \in Texts2025}
        /\ Range(shown.df_salesman_year)
            = {i \in Range(row_index(view.df_filtered)) :
                    ~IsNaN(widgets.salesman_year)
                    /\ CalendarYear(DateText(i)) = Val(widgets.salesman_year)}
        /\ Range(shown.df_category_year)
            = {i \in Range(row_index(view.df_filtered)) :
                    ~IsNaN(widgets.category_year)
                    /\ CalendarYear(DateText(i)) = Val(widgets.category_year)}

\* a row with the text 2025-13-45 in the 2025 view, left out by the salesman
\* selector set to 2025
C12_Witness ==
    /\ ViewRendered
    /\ widgets.salesman_year = Num(2025)
    /\ \E i \in Range(row_index(view.df_2025)) :
        /\ DateText(i) = T_2025_13_45
        /\ i \notin Range(shown.df_salesman_year)
    /\ shown.df_salesman_year # <<>>

\* the user has set the category selector to 2024 on a page whose default is 2025
C12_WitnessPicked ==
    /\ ViewRendered
    /\ widgets.category_year = Num(2024)
    /\ widgets.salesman_year = Num(2025)
    /\ shown.df_category_year # <<>>

\* the calendar month <<year, month>> an input text stands for (<<0, 0>>: it
\* is no date), and the amount the item at position i carries
CalendarMonth(t) ==
    IF t = T_2024_01_10 THEN <<2024, 1>>
    ELSE IF t = T_2024_02_05 THEN <<2024, 2>>
    ELSE IF t = T_2024_03_15 THEN <<2024, 3>>
    ELSE IF t = T_2025_01_10 THEN <<2025, 1>>
    ELSE <<0, 0>>
AmountAt(i) == IF i % 3 = 1 THEN 100 ELSE IF i % 3 = 2 THEN 200 ELSE 50

RECURSIVE AmountOver(_)
\* the amounts of the items at the positions S, added up
AmountOver(S) ==
    IF S = {} THEN 0
    ELSE LET i == CHOOSE j \in S : TRUE IN AmountAt(i) + AmountOver(S \ {i})

\* the bucket a chart should hold for the calendar month ym over the rows S
MonthBucket(ym, S) ==
    [key |-> <<Num(ym[1]), Num(ym[2]), <<MonthNames[ym[2]]>>>>,
     Total_Value |-> AmountOver({i \in S : CalendarMonth(DateText(i)) = ym})]

\* the calendar months of the rows S that carry a date
MonthsOf(S) == {CalendarMonth(DateText(i)) : i \in S} \ {<<0, 0>>}

\* C13: grouping by month gives one bucket per calendar month (year and
\* month) of the rows, holding the sum of Total Value of exactly that
\* month's rows: the year-by-month chart over df_filtered, and the 2025
\* chart over the 2025 view, whose dated rows all lie in 2025.
C13_OneBucketPerCalendarMonth ==
    ViewRendered =>
        LET F == Range(row_index(view.df_filtered))
            V == Range(row_index(view.df_2025))
        IN /\ shown.monthly_yearly = {MonthBucket(ym, F) : ym \in MonthsOf(F)}
           /\ \A ym \in MonthsOf(V) : ym[1] = 2025
           /\ shown.monthly_sales
                = {[key |-> <<Num(ym[2]), <<MonthNames[ym[2]]>>>>,
                    Total_Value |-> MonthBucket(ym, V).Total_Value] : ym \in MonthsOf(V)}

\* rows of 100 and 200 in January 2024 and of 50 in February 2024 give the
\* buckets January 2024: 300 and February 2024: 50
C13_Witness ==
    /\ ViewRendered
    /\ Len(view.df_filtered) = 3
    /\ shown.monthly_yearly
        = {[key |-> <<Num(2024), Num(1), <<"January">>>>, Total_Value |-> 300],
           [key |-> <<Num(2024), Num(2), <<"February">>>>, Total_Value |-> 50]}

\* January 2024 and January 2025 stay two buckets
C13_WitnessTwoYears ==
    /\ ViewRendered
    /\ \E a, b \in shown.monthly_yearly :
        /\ a.key[1] = Num(2024) /\ b.key[1] = Num(2025)
        /\ a.key[2] = Num(1) /\ b.key[2] = Num(1)
    /\ shown.monthly_sales # {}

\* the positions among S whose item has a missing, empty or blank text in
\* the column `id`
BlankAt(S, id) ==
    {i \in S : ColumnText(data.items[i], id) \in {Absent, None, <<>>, <<" ">>}}

RECURSIVE BarsTotal(_)
\* the heights of a set of bars, added up
BarsTotal(bars) ==
    IF bars = {} THEN 0
    ELSE LET b == CHOOSE c \in bars : TRUE IN b.Total_Value + BarsTotal(bars \ {b})

RECURSIVE TracesTotal(_)
TracesTotal(ts) ==
    IF ts = {} THEN 0
    ELSE LET t == CHOOSE u \in ts : TRUE IN BarsTotal(t.bars) + TracesTotal(ts \ {t})

\* the rows B, when there are any, are counted in exactly one of the traces
\* ts named `label`
SingleBucket(ts, label, B) ==
    B # {} =>
        /\ Cardinality({t \in ts : t.name = label}) = 1
        /\ \A t \in ts : t.name = label => BarsTotal(t.bars) = AmountOver(B)

\* C14: in the breakdown by salesperson and in the breakdown by category,
\* the rows of the selected year whose Assigned Person / Client Type is
\* missing, empty or blank are all counted in one single bucket, labelled
\* "Unassigned" / "Uncategorized".
C14_BlankInSingleBucket ==
    ViewRendered =>
        /\ SingleBucket(shown.salesman, Unassigned,
                        BlankAt(Range(shown.df_salesman_year), "color_mkvewcwe"))
        /\ SingleBucket(shown.categories, Uncategorized,
                        BlankAt(Range(shown.df_category_year), "status_14__1"))

\* what does hold: no such row is dropped; the buckets labelled "Unassigned" /
\* "Uncategorized" together count every one of them, and nothing else
C14_BlankRowsAllCounted ==
    ViewRendered =>
        /\ TracesTotal({t \in shown.salesman : t.name = Unassigned})
            = AmountOver(BlankAt(Range(shown.df_salesman_year), "color_mkvewcwe"))
        /\ TracesTotal({t \in shown.categories : t.name = Uncategorized})
            = AmountOver(BlankAt(Range(shown.df_category_year), "status_14__1"))

\* an empty and a blank Assigned Person in one year: two traces, both named
\* "Unassigned"
C14_TwoTracesOneLabel ==
    /\ ViewRendered
    /\ Cardinality({t \in shown.salesman : t.name = Unassigned}) = 2

\* C19 as stated: the totals of the "Sales by Year" buckets, and those of
\* the year-by-month buckets, add up to the sum of Total Value over all rows
\* of df_filtered, rows without a parseable Close Date included.
C19_TotalsConserved ==
    ViewRendered =>
        LET F == Range(row_index(view.df_filtered))
        IN /\ BarsTotal(shown.yearly_sales) = AmountOver(F)
           /\ BarsTotal(shown.monthly_yearly) = AmountOver(F)

\* C19 amended: those totals add up to the sum of Total Value over the rows
\* of df_filtered whose Close Date parses; a row with an empty or unparseable
\* Close Date is in no bucket.
C19_TotalsOfDatedRows ==
    ViewRendered =>
        LET F == Range(row_index(view.df_filtered))
            dated == {i \in F : CalendarYear(DateText(i)) # 0}
        IN /\ BarsTotal(shown.yearly_sales) = AmountOver(dated)
           /\ BarsTotal(shown.monthly_yearly) = AmountOver(dated)
           /\ \A b \in shown.yearly_sales :
                b.Total_Value
                    = AmountOver({i \in F : Num(CalendarYear(DateText(i))) = b.key[1]})

\* a dated row and a row without a parseable date: the buckets hold less than
\* the rows do
C19_Witness ==
    /\ ViewRendered
    /\ shown.yearly_sales # {}
    /\ \E i \in Range(row_index(view.df_filtered)) : DateText(i) = T_2025_13_45
    /\ BarsTotal(shown.yearly_sales) < AmountOver(Range(row_index(view.df_filtered)))

TableShown == Rendered /\ page = "app" /\ shown.table # NoTable

\* C15: the CSV export of the ad-spend page holds exactly the rows of the
\* displayed table and exactly its columns in its order: item name, date,
\* year, numeric amount, and no other column.
C15_CsvMatchesTable ==
    TableShown =>
        /\ shown.table.columns = <<"Item", "Attribution Date", "Year", "Google Adspend">>
        /\ shown.csv.columns = shown.table.columns
        /\ shown.csv.rows = shown.table.rows

\* what does hold: the export has one row per row of the table, in the same
\* order, and every cell of the table is in the export under its column
C15_CsvHoldsTableRows ==
    TableShown =>
        /\ Len(shown.csv.rows) = Len(shown.table.rows)
        /\ \A c \in 1..Len(shown.table.columns) :
            \E d \in 1..Len(shown.csv.columns) :
                /\ shown.csv.columns[d] = shown.table.columns[c]
                /\ \A i \in 1..Len(shown.table.rows) :
                    shown.csv.rows[i][d] = shown.table.rows[i][c]

\* the export of a displayed table carries the column Month Year, which the
\* table does not show
C15_ExportHasMonthYear ==
    /\ TableShown
    /\ widgets.selected_year # AllYears
    /\ \E d \in 1..Len(shown.csv.columns) : shown.csv.columns[d] = "Month Year"

\* the fetch of this script run brought a well-formed result of zero items
EmptyResult == ~failed /\ data.kind = "json" /\ data.boards = "present" /\ data.items = <<>>

\* the page shows its "no data" warning and no error message
OnlyNoData == outcome = "warning" /\ message = "none"

\* C16: a well-formed result of zero items is rendered as the explicit "no
\* data" signal without an error message, and a failed fetch is never
\* rendered as "no data" alone.
C16_EmptyAndFailedDistinguishable ==
    Rendered =>
        /\ EmptyResult => OnlyNoData
        /\ failed => ~OnlyNoData

\* the ad-spend page after a response carrying an "errors" payload: the "no
\* data" warning alone
C16_ApiErrorShownAsNoData ==
    /\ Rendered /\ page = "app" /\ failed
    /\ data.errors
    /\ OnlyNoData

\* the sales page after a well-formed empty result: the exception
C16_EmptySalesRaises ==
    Rendered /\ page = "sales" /\ EmptyResult /\ outcome = "exception"

\* C17: the first request of a fetch carries no cursor, every later request
\* carries the cursor of the response just before it, which is a cursor, and
\* after a response without a cursor no request follows.
C17_CursorChain ==
    (page = "sales" /\ pc \in {"loop", "process"}) =>
        /\ Len(sent) = Len(hist)
        /\ sent # <<>> => sent[1] = None
        /\ \A i \in 2..Len(sent) :
            /\ hist[i - 1].kind = "ok"
            /\ Truthy(hist[i - 1].cursor)
            /\ sent[i] = hist[i - 1].cursor
        /\ (pc = "loop" /\ hist # <<>>) => Truthy(hist[Len(hist)].cursor)

\* a fetch of three requests whose second and third carried different cursors
C17_Witness ==
    /\ page = "sales" /\ pc = "process"
    /\ Len(sent) >= 3
    /\ sent[2] # sent[3]
    /\ sent[3] = hist[2].cursor

\* a dated row and a row whose Close Date is null: the latter is in no bucket
C19_WitnessEmptyDate ==
    /\ ViewRendered
    /\ shown.monthly_yearly # {}
    /\ \E i \in Range(row_index(view.df_filtered)) : DateText(i) = None
    /\ BarsTotal(shown.monthly_yearly) < AmountOver(Range(row_index(view.df_filtered)))

====
